---------------------------- MODULE Spec2Model ----------------------------
(***************************************************************************)
(* Model of the finance-mentor-agent decision core:                        *)
(*   memory/storage.py        StorageEngine (the persisted JSON document)  *)
(*   agents/state_agent.py    FinancialStateAgent (snapshot aggregation)   *)
(*   agents/budget_agent.py   BudgetPlanningAgent                          *)
(*   agents/purchase_agent.py PurchaseImpactAgent                          *)
(*   tools/budget_calculator.py, tools/impact_simulator.py (pure logic)    *)
(*                                                                         *)
(* Money is a Python float in the source.  Here an amount is an integer    *)
(* number of minor units and every input is drawn from a grid of multiples *)
(* of 5, on which x * 0.40, x * 0.60 and x * 0.5 are exact, so the         *)
(* arithmetic below is the exact (real-number) arithmetic of the code.     *)
(* Binary rounding of floats is outside the model.  A quotient is kept as  *)
(* an exact fraction [num, den].                                           *)
(***************************************************************************)
EXTENDS Integers, Sequences, FiniteSets, TLC

VARIABLES
    doc,    \* content of the JSON file at db_path (storage.py:17-26)
    now,    \* logical wall clock read by datetime.now() (state_agent.py:31)
    call,   \* the last call made: operation name, its arguments, and a count
            \* observed during it (see AddFixedExpense, GetTodaysState)
    ret,    \* what that call returned (or raised)
    file,   \* what is at db_path: "absent", "corrupt" (not JSON) or "ok",
            \* in which case doc is its content
    provider, \* LLMInterface._provider: "mock" or "hf" (llm_interface.py:189)
    session,  \* st.session_state of the browser session (app.py:120-122)
    procs     \* the calls in progress, one per actor sharing the agents

aux == <<file, provider, session, procs>>
vars == <<doc, now, call, ret, file, provider, session, procs>>

----------------------------------------------------------------------------
(* Bounds *)

MaxAmt == 1      \* store inputs are 5 * (0..MaxAmt)
MaxCalc == 8     \* calculator inputs are 5 * (-NegCalc..MaxCalc)
NegCalc == 4
MaxTx == 2       \* at most MaxTx logged transactions
MaxReads == 2    \* consecutive get_todays_state calls that are counted

Amounts == {5 * k : k \in 0..MaxAmt}
Goals == {5}
IncomeAmounts == {5}
CalcInputs == {5 * k : k \in (0 - NegCalc)..MaxCalc}
Names == {"Rent", "Gym"}
Items == {"Phone"}
Categories == {"Wants"}

----------------------------------------------------------------------------
(* Python values *)

None == [kind |-> "None"]
Return(k, v) == [kind |-> k, value |-> v]
Raise(e) == [kind |-> "raise", value |-> e]
EmptyDict == [empty |-> TRUE]

\* x * (num / den), exact on the input grid
Mul(x, num, den) == (x * num) \div den

\* abs()
Abs(x) == IF x < 0 THEN 0 - x ELSE x

\* sum(e["amount"] for e in seq)
RECURSIVE SumAmount(_)
SumAmount(seq) ==
    IF seq = <<>> THEN 0 ELSE Head(seq).amount + SumAmount(Tail(seq))

----------------------------------------------------------------------------
(* tools/budget_calculator.py *)

\* mutant: the 20% savings share of calculate_50_30_20 used for the split
calculate_remaining_after_fixed_share(income, fixed_expenses_total) ==
    LET discretionary == income - fixed_expenses_total IN
    IF discretionary < 0
    THEN [status |-> "deficit",
          discretionary |-> 0,
          needs_gap |-> Abs(discretionary)]
    ELSE [status |-> "surplus",
          needs_total |-> fixed_expenses_total,
          discretionary_total |-> discretionary,
          recommended_savings |-> Mul(discretionary, 20, 100),
          recommended_wants |-> Mul(discretionary, 60, 100)]

\* mutant: a zero remainder counted as a deficit
calculate_remaining_after_fixed_le(income, fixed_expenses_total) ==
    LET discretionary == income - fixed_expenses_total IN
    IF discretionary <= 0
    THEN [status |-> "deficit",
          discretionary |-> 0,
          needs_gap |-> Abs(discretionary)]
    ELSE [status |-> "surplus",
          needs_total |-> fixed_expenses_total,
          discretionary_total |-> discretionary,
          recommended_savings |-> Mul(discretionary, 40, 100),
          recommended_wants |-> Mul(discretionary, 60, 100)]

calculate_remaining_after_fixed(income, fixed_expenses_total) ==
    LET discretionary == income - fixed_expenses_total IN
    IF discretionary < 0
    THEN [status |-> "deficit",
          discretionary |-> 0,
          needs_gap |-> Abs(discretionary)]
    ELSE [status |-> "surplus",
          needs_total |-> fixed_expenses_total,
          discretionary_total |-> discretionary,
          recommended_savings |-> Mul(discretionary, 40, 100),
          recommended_wants |-> Mul(discretionary, 60, 100)]

----------------------------------------------------------------------------
(* tools/impact_simulator.py *)

\* Lines 22-47 of assess_transaction, given the outcome of its two tests:
\* debt is Rule 1 (line 22), heavy the 50% heuristic (line 38).  The
\* division of line 46 raises ZeroDivisionError on a zero balance.
Assess(balance, item_cost, remaining_balance, debt, heavy) ==
    LET risk_level == IF heavy THEN "CAUTION" ELSE "SAFE"
        advice == IF heavy
                  THEN "uses more than 50% of fun money"
                  ELSE "enough budget"
    IN
    IF debt
    THEN Return("assessment",
                [status |-> "DANGER",
                 reason |-> "insufficient funds",
                 remaining_balance |-> remaining_balance,
                 impact_on_savings |-> "N/A"])
    ELSE IF balance = 0
    THEN Raise("ZeroDivisionError")
    ELSE Return("assessment",
                [status |-> risk_level,
                 reason |-> advice,
                 remaining_balance |-> remaining_balance,
                 cost_percentage_of_free_cash |->
                     [num |-> item_cost * 100, den |-> balance]])

\* mutant: Rule 1 written as remaining_balance <= 0
assess_transaction_le(current_discretionary_balance, current_savings, savings_goal, item_cost) ==
    LET remaining_balance == current_discretionary_balance - item_cost IN
    Assess(current_discretionary_balance, item_cost, remaining_balance,
           remaining_balance <= 0,
           2 * item_cost > current_discretionary_balance)

\* mutant: the subtraction of line 19 reversed
assess_transaction_swap(current_discretionary_balance, current_savings, savings_goal, item_cost) ==
    LET remaining_balance == item_cost - current_discretionary_balance IN
    Assess(current_discretionary_balance, item_cost, remaining_balance,
           remaining_balance < 0,
           2 * item_cost > current_discretionary_balance)

\* mutant: the 50% heuristic written with >=
assess_transaction_ge(current_discretionary_balance, current_savings, savings_goal, item_cost) ==
    LET remaining_balance == current_discretionary_balance - item_cost IN
    Assess(current_discretionary_balance, item_cost, remaining_balance,
           remaining_balance < 0,
           2 * item_cost >= current_discretionary_balance)

\* current_savings and savings_goal are accepted and never read;
\* item_cost > balance * 0.5 is written 2 * item_cost > balance
assess_transaction(current_discretionary_balance, current_savings, savings_goal, item_cost) ==
    LET remaining_balance == current_discretionary_balance - item_cost IN
    Assess(current_discretionary_balance, item_cost, remaining_balance,
           remaining_balance < 0,
           2 * item_cost > current_discretionary_balance)

----------------------------------------------------------------------------
(* memory/storage.py *)

\* _initialize_db when no file exists
initial_data ==
    [user_profile |-> [monthly_income |-> 0, savings_goal |-> 0,
                       currency |-> "INR"],   \* the rupee sign
     fixed_expenses |-> <<>>,
     transactions |-> <<>>,
     budget_plan |-> EmptyDict]

update_user_profile(data, income, savings_goal) ==
    [data EXCEPT !.user_profile.monthly_income = income,
                 !.user_profile.savings_goal = savings_goal]

get_user_profile(data) == data.user_profile

\* mutant: the filter of line 53 left out
add_fixed_expense_nofilter(data, name, amount) ==
    [data EXCEPT !.fixed_expenses =
        Append(@, [name |-> name, amount |-> amount])]

add_fixed_expense(data, name, amount) ==
    [data EXCEPT !.fixed_expenses =
        Append(SelectSeq(@, LAMBDA e : e.name # name),
               [name |-> name, amount |-> amount])]

get_fixed_expenses(data) == data.fixed_expenses

\* mutant: newest first
log_transaction_prepend(data, transaction) ==
    [data EXCEPT !.transactions = <<transaction>> \o @]

log_transaction(data, transaction) ==
    [data EXCEPT !.transactions = Append(@, transaction)]

get_transactions(data) == data.transactions

save_budget_plan(data, plan) == [data EXCEPT !.budget_plan = plan]

get_budget_plan(data) == data.budget_plan

----------------------------------------------------------------------------
(* agents/state_agent.py *)

get_total_fixed_expenses(data) == SumAmount(get_fixed_expenses(data))

\* the transaction FinancialStateAgent.log_transaction builds
NewTransaction(date, item_name, amount, category) ==
    [date |-> date, description |-> item_name, amount |-> amount,
     category |-> category, type |-> "expense"]

\* mutant: the type filter of line 46 left out
get_todays_state_alltypes(data) ==
    LET profile == get_user_profile(data)
        fixed == get_total_fixed_expenses(data)
        transactions == get_transactions(data)
        variable_spend == SumAmount(transactions)
    IN [income |-> profile.monthly_income,
        total_fixed_expenses |-> fixed,
        variable_expenses |-> variable_spend,
        savings_goal |-> profile.savings_goal,
        free_cash_flow |-> profile.monthly_income - fixed - variable_spend]

get_todays_state(data) ==
    LET profile == get_user_profile(data)
        fixed == get_total_fixed_expenses(data)
        transactions == get_transactions(data)
        variable_spend ==
            SumAmount(SelectSeq(transactions, LAMBDA t : t.type = "expense"))
    IN [income |-> profile.monthly_income,
        total_fixed_expenses |-> fixed,
        variable_expenses |-> variable_spend,
        savings_goal |-> profile.savings_goal,
        free_cash_flow |-> profile.monthly_income - fixed - variable_spend]

----------------------------------------------------------------------------
(* agents/budget_agent.py, agents/purchase_agent.py *)

create_budget_plan(data) ==
    LET state == get_todays_state(data)
        income == state.income
        fixed_expenses == state.total_fixed_expenses
    IN [income |-> income,
        fixed_expenses |-> fixed_expenses,
        plan_details |-> calculate_remaining_after_fixed(income, fixed_expenses),
        strategy |-> "Needs-First Allocation"]

analyze_purchase(data, item_name, cost) ==
    LET state == get_todays_state(data)
        assessment == assess_transaction(state.free_cash_flow, 0,
                                         state.savings_goal, cost)
    IN IF assessment.kind = "raise"
       THEN assessment
       ELSE Return("assessment",
                   assessment.value @@ [item |-> item_name, cost |-> cost])

----------------------------------------------------------------------------
(* The calls *)

Plans == {calculate_remaining_after_fixed(10, 5)}

Call(op, name, a, b) == [op |-> op, name |-> name, a |-> a, b |-> b, rep |-> 0]

\* st.session_state before any analysis
NoSession == [analysis_done |-> FALSE, item |-> "", cost |-> 0,
              remaining_balance |-> 0, status |-> "", stale |-> FALSE]

\* no call in progress
NoProcs == <<>>

\* the store just constructed where no file existed, HF_TOKEN unset
InitAux ==
    /\ file = "ok"
    /\ provider = "mock"
    /\ session = NoSession
    /\ procs = NoProcs

Init ==
    /\ doc = initial_data
    /\ now = 1
    /\ call = Call("init", "", 0, 0)
    /\ ret = None
    /\ InitAux

UpdateProfile(income, savings_goal) ==
    /\ doc' = update_user_profile(doc, income, savings_goal)
    /\ UNCHANGED aux
    /\ call' = Call("update_profile", "", income, savings_goal)
    /\ ret' = None
    /\ UNCHANGED now

\* call.rep counts the entries the filter of line 53 dropped
AddFixedExpense(name, amount) ==
    /\ doc' = add_fixed_expense(doc, name, amount)
    /\ UNCHANGED aux
    /\ call' = [Call("add_fixed_expense", name, amount, 0) EXCEPT
                   !.rep = Len(doc.fixed_expenses)
                           - Len(SelectSeq(doc.fixed_expenses,
                                           LAMBDA e : e.name # name))]
    /\ ret' = None
    /\ UNCHANGED now

\* FinancialStateAgent.log_transaction, reached from confirm_purchase
LogTransaction(item_name, amount, category) ==
    /\ Len(doc.transactions) < MaxTx
    /\ doc' = log_transaction(doc, NewTransaction(now, item_name, amount, category))
    /\ now' = now + 1
    /\ UNCHANGED aux
    /\ call' = Call("log_transaction", item_name, amount, 0)
    /\ ret' = None

\* StorageEngine.log_transaction called with a caller-built transaction
StorageLogTransaction(transaction) ==
    /\ Len(doc.transactions) < MaxTx
    /\ doc' = log_transaction(doc, transaction)
    /\ now' = now + 1
    /\ UNCHANGED aux
    /\ call' = Call("storage.log_transaction", transaction.description,
                    transaction.amount, 0)
    /\ ret' = None

\* save_budget_plan has no caller in the repository; the plan is an input
SaveBudgetPlan(plan) ==
    /\ doc' = save_budget_plan(doc, plan)
    /\ UNCHANGED aux
    /\ call' = Call("save_budget_plan", "", 0, 0)
    /\ ret' = None
    /\ UNCHANGED now

GetProfile ==
    /\ UNCHANGED aux
    /\ call' = Call("get_profile", "", 0, 0)
    /\ ret' = Return("profile", get_user_profile(doc))
    /\ UNCHANGED <<doc, now>>

GetFixedExpenses ==
    /\ UNCHANGED aux
    /\ call' = Call("get_fixed_expenses", "", 0, 0)
    /\ ret' = Return("list", get_fixed_expenses(doc))
    /\ UNCHANGED <<doc, now>>

GetTransactions ==
    /\ UNCHANGED aux
    /\ call' = Call("get_transactions", "", 0, 0)
    /\ ret' = Return("list", get_transactions(doc))
    /\ UNCHANGED <<doc, now>>

GetBudgetPlan ==
    /\ UNCHANGED aux
    /\ call' = Call("get_budget_plan", "", 0, 0)
    /\ ret' = Return("plan", get_budget_plan(doc))
    /\ UNCHANGED <<doc, now>>

\* mutant: the snapshot also stored in the document as the budget plan
GetTodaysState_saving ==
    /\ call.op = "get_todays_state" => call.rep < MaxReads
    /\ UNCHANGED aux
    /\ call' = [Call("get_todays_state", "", 0, 0) EXCEPT
                   !.rep = IF call.op = "get_todays_state"
                           THEN call.rep + 1 ELSE 1]
    /\ ret' = Return("snapshot", get_todays_state(doc))
    /\ doc' = save_budget_plan(doc, get_todays_state(doc))
    /\ UNCHANGED now

\* call.rep counts the get_todays_state calls made in a row
GetTodaysState ==
    /\ call.op = "get_todays_state" => call.rep < MaxReads
    /\ UNCHANGED aux
    /\ call' = [Call("get_todays_state", "", 0, 0) EXCEPT
                   !.rep = IF call.op = "get_todays_state"
                           THEN call.rep + 1 ELSE 1]
    /\ ret' = Return("snapshot", get_todays_state(doc))
    /\ UNCHANGED <<doc, now>>

CreateBudgetPlan ==
    /\ UNCHANGED aux
    /\ call' = Call("create_budget_plan", "", 0, 0)
    /\ ret' = Return("budget", create_budget_plan(doc))
    /\ UNCHANGED <<doc, now>>

AnalyzePurchase(item_name, cost) ==
    /\ UNCHANGED aux
    /\ call' = Call("analyze_purchase", item_name, cost, 0)
    /\ ret' = analyze_purchase(doc, item_name, cost)
    /\ UNCHANGED <<doc, now>>

Next ==
    \/ \E income \in Amounts, goal \in Goals : UpdateProfile(income, goal)
    \/ \E name \in Names, amount \in Amounts : AddFixedExpense(name, amount)
    \/ \E item \in Items, amount \in Amounts, category \in Categories :
          LogTransaction(item, amount, category)
    \/ \E item \in Items, amount \in IncomeAmounts :
          StorageLogTransaction([date |-> now, description |-> item,
                                 amount |-> amount, category |-> "Income",
                                 type |-> "income"])
    \/ \E plan \in Plans : SaveBudgetPlan(plan)
    \/ GetProfile
    \/ GetFixedExpenses
    \/ GetTransactions
    \/ GetBudgetPlan
    \/ GetTodaysState
    \/ CreateBudgetPlan
    \/ \E item \in Items, cost \in Amounts : AnalyzePurchase(item, cost)

Spec == Init /\ [][Next]_vars

----------------------------------------------------------------------------
(* The pure calculators on drawn inputs *)

InitCalc ==
    /\ doc = initial_data
    /\ now = 1
    /\ \E a \in CalcInputs, b \in CalcInputs : call = Call("input", "", a, b)
    /\ ret = None
    /\ InitAux

\* call.a = income, call.b = fixed_expenses_total
CalcRemainingAfterFixed ==
    /\ call.op = "input"
    /\ UNCHANGED aux
    /\ call' = [call EXCEPT !.op = "calculate_remaining_after_fixed"]
    /\ ret' = Return("plan", calculate_remaining_after_fixed(call.a, call.b))
    /\ UNCHANGED <<doc, now>>

\* call.a = current_discretionary_balance, call.b = item_cost
AssessTransaction ==
    /\ call.op = "input"
    /\ \E goal \in Goals :
          /\ call' = [call EXCEPT !.op = "assess_transaction"]
          /\ ret' = assess_transaction(call.a, 0, goal, call.b)
    /\ UNCHANGED <<doc, now>>
    /\ UNCHANGED aux

NextCalc == CalcRemainingAfterFixed \/ AssessTransaction

SpecCalc == InitCalc /\ [][NextCalc]_vars

----------------------------------------------------------------------------
(* Properties of the calculators, under SpecCalc *)

IsCalc == call.op = "calculate_remaining_after_fixed"
IsAssess == call.op = "assess_transaction"
Assessed == IsAssess /\ ret.kind = "assessment"

\* C1: for income >= 0, fixedTotal >= 0 and fixedTotal <= income,
\* calculate_remaining_after_fixed returns a surplus record whose
\* recommended_savings + recommended_wants is income - fixedTotal and whose
\* recommended_savings is 40% of discretionary_total.
C1_SurplusSplit ==
    (IsCalc /\ call.a >= 0 /\ call.b >= 0 /\ call.b <= call.a) =>
        /\ ret.value.status = "surplus"
        /\ ret.value.recommended_savings + ret.value.recommended_wants
              = call.a - call.b
        /\ 100 * ret.value.recommended_savings
              = 40 * ret.value.discretionary_total

C1_Witness ==
    /\ IsCalc /\ call.b > 0 /\ call.b < call.a
    /\ ret.value.status = "surplus"
    /\ ret.value.recommended_savings > 0

\* C2: for fixedTotal > income the result is a deficit record with
\* needs_gap = fixedTotal - income >= 0 and discretionary shown as 0;
\* for fixedTotal <= income the result is never a deficit.
C2_DeficitGap ==
    IsCalc =>
        /\ call.b > call.a =>
              /\ ret.value.status = "deficit"
              /\ ret.value.needs_gap = call.b - call.a
              /\ ret.value.needs_gap >= 0
              /\ ret.value.discretionary = 0
        /\ call.b <= call.a => ret.value.status # "deficit"

C2_Witness ==
    /\ IsCalc /\ call.a >= 0 /\ call.b > call.a
    /\ ret.value.status = "deficit"
    /\ ret.value.needs_gap > 0

\* C3: for discretionaryBalance >= 0 and 0 <= itemCost <= discretionaryBalance
\* assess_transaction never returns status DANGER.
C3_AffordableNeverDanger ==
    (IsAssess /\ call.a >= 0 /\ call.b >= 0 /\ call.b <= call.a) =>
        ~(ret.kind = "assessment" /\ ret.value.status = "DANGER")

C3_Witness ==
    /\ Assessed /\ call.a > 0 /\ call.b = call.a
    /\ ret.value.status = "CAUTION"

\* C4: for itemCost > discretionaryBalance (zero and negative balances
\* included) assess_transaction returns DANGER with
\* remaining_balance = discretionaryBalance - itemCost < 0 and no
\* cost_percentage_of_free_cash field.
C4_UnaffordableIsDanger ==
    (IsAssess /\ call.b > call.a) =>
        /\ ret.kind = "assessment"
        /\ ret.value.status = "DANGER"
        /\ ret.value.remaining_balance = call.a - call.b
        /\ ret.value.remaining_balance < 0
        /\ "cost_percentage_of_free_cash" \notin DOMAIN ret.value

C4_Witness ==
    /\ Assessed /\ call.a <= 0 /\ call.b > 0
    /\ ret.value.status = "DANGER"

\* C5: for discretionaryBalance > 0 and 0 <= itemCost <= discretionaryBalance
\* the status is CAUTION exactly when itemCost > 0.5 * discretionaryBalance
\* and SAFE otherwise (exactly half is SAFE); in both cases
\* remaining_balance = discretionaryBalance - itemCost and
\* cost_percentage_of_free_cash = 100 * itemCost / discretionaryBalance.
C5_CautionThreshold ==
    (IsAssess /\ call.a > 0 /\ call.b >= 0 /\ call.b <= call.a) =>
        /\ ret.kind = "assessment"
        /\ ret.value.status
              = (IF 2 * call.b > call.a THEN "CAUTION" ELSE "SAFE")
        /\ ret.value.remaining_balance = call.a - call.b
        /\ "cost_percentage_of_free_cash" \in DOMAIN ret.value
        /\ ret.value.cost_percentage_of_free_cash.den # 0
        /\ ret.value.cost_percentage_of_free_cash.num * call.a
              = 100 * call.b * ret.value.cost_percentage_of_free_cash.den

C5_Witness ==
    /\ Assessed /\ call.a > 0 /\ 2 * call.b = call.a
    /\ ret.value.status = "SAFE"

\* C6: assess_transaction returns a result, never an error, for every
\* itemCost >= 0 and every discretionaryBalance; in particular for
\* discretionaryBalance = 0 and itemCost = 0.
C6_NeverRaises ==
    (IsAssess /\ call.b >= 0) => ret.kind # "raise"

----------------------------------------------------------------------------
(* Properties of the store and the aggregator, under Spec *)

Indices(seq, name) == {i \in DOMAIN seq : seq[i].name = name}
Others(seq, name) == {seq[i] : i \in DOMAIN seq \ Indices(seq, name)}

UniqueNames(seq) ==
    \A i, j \in DOMAIN seq : seq[i].name = seq[j].name => i = j

\* a step of add_fixed_expense(call'.name, call'.a)
AddReplaces ==
    call'.op = "add_fixed_expense" =>
        LET old == doc.fixed_expenses
            new == doc'.fixed_expenses
            hits == Indices(new, call'.name)
        IN /\ Cardinality(hits) = 1
           /\ \A i \in hits : new[i].amount = call'.a
           /\ Others(new, call'.name) = Others(old, call'.name)
           /\ Len(new) = Cardinality(Others(old, call'.name)) + 1

\* C7: from a freshly initialized store fixed-expense names stay unique;
\* add_fixed_expense(name, amount) leaves exactly one entry with that name,
\* carrying the new amount, and every entry with another name unchanged.
C7_UpsertByName ==
    /\ [](UniqueNames(doc.fixed_expenses))
    /\ [][AddReplaces]_vars

C7_Witness ==
    /\ call.op = "add_fixed_expense" /\ call.rep = 1
    /\ Len(doc.fixed_expenses) = 2
    /\ doc.fixed_expenses[2] = [name |-> call.name, amount |-> call.a]
    /\ doc.fixed_expenses[1].name # call.name

RECURSIVE SumAt(_, _)
SumAt(seq, S) ==
    IF S = {} THEN 0
    ELSE LET i == CHOOSE i \in S : TRUE
         IN seq[i].amount + SumAt(seq, S \ {i})

ExpenseIndices(seq) == {i \in DOMAIN seq : seq[i].type = "expense"}

\* the snapshot the specification prescribes for a document
Aggregate(data) ==
    LET fixed_total == SumAt(data.fixed_expenses, DOMAIN data.fixed_expenses)
        expense_total == SumAt(data.transactions,
                               ExpenseIndices(data.transactions))
    IN [income |-> data.user_profile.monthly_income,
        savings_goal |-> data.user_profile.savings_goal,
        total_fixed_expenses |-> fixed_total,
        variable_expenses |-> expense_total,
        free_cash_flow |-> data.user_profile.monthly_income
                             - fixed_total - expense_total]

\* C8: get_todays_state returns income and savings_goal of the profile, the
\* sum of all fixed-expense amounts, the sum of the amounts of exactly the
\* expense-kind transactions, and free_cash_flow = income - fixed - variable.
C8_SnapshotSums ==
    call.op = "get_todays_state" =>
        /\ ret.kind = "snapshot"
        /\ ret.value = Aggregate(doc)

C8_Witness ==
    /\ call.op = "get_todays_state"
    /\ \E i \in DOMAIN doc.transactions :
          doc.transactions[i].type = "income" /\ doc.transactions[i].amount > 0
    /\ ret.value.variable_expenses > 0
    /\ ret.value.total_fixed_expenses > 0
    /\ ret.value.income > 0

\* a step of get_todays_state
ReadIsPure ==
    call'.op = "get_todays_state" =>
        /\ doc' = doc
        /\ ret'.value = get_todays_state(doc')
        /\ call.op = "get_todays_state" => ret' = ret

\* C9: get_todays_state leaves the document unchanged, two calls in a row
\* return the same snapshot, and a call after a mutation returns the
\* snapshot of the mutated document.
C9_SnapshotPure == [][ReadIsPure]_vars

C9_Witness ==
    /\ call.op = "get_todays_state" /\ call.rep = 2
    /\ ret.value.free_cash_flow < 0
    /\ Len(doc.transactions) > 0

IsPrefix(s, t) == Len(s) <= Len(t) /\ \A i \in DOMAIN s : s[i] = t[i]

LogOps == {"log_transaction", "storage.log_transaction"}

AppendOnly ==
    /\ IsPrefix(doc.transactions, doc'.transactions)
    /\ IF call'.op \in LogOps
       THEN Len(doc'.transactions) = Len(doc.transactions) + 1
       ELSE doc'.transactions = doc.transactions

\* C10: the log before any operation is a prefix of the log after it;
\* log_transaction appends exactly one entry at the end, and no other
\* operation changes the log.
C10_AppendOnlyLog == [][AppendOnly]_vars

C10_Witness ==
    /\ call.op = "log_transaction"
    /\ Len(doc.transactions) = 2
    /\ doc.transactions[2].description = call.name
    /\ doc.transactions[2].amount = call.a
    /\ doc.transactions[1] # doc.transactions[2]

----------------------------------------------------------------------------
(* llm/llm_interface.py, agents/mentor_agent.py *)

Tokens == {"", "hf_secret"}

\* what urlopen / json.load do for one request (lines 127-140)
Outcomes == {"generated", "error_dict", "other_json", "http_error",
             "url_error", "timeout", "not_json"}

\* an advice string: where it comes from, and the status it is keyed on
Advice(source, status, detail) ==
    [source |-> source, status |-> status, detail |-> detail]

\* MockLLMProvider.generate_response: templates keyed on the status
Mock_generate_response(context) ==
    IF context.status \in {"DANGER", "CAUTION", "SAFE"}
    THEN Advice("template", context.status, "advice")
    ELSE Advice("template", "UNKNOWN", "cannot assess")

\* HuggingFaceProvider.generate_response: every failure is turned into a
\* returned string, none into the templated explanation
HuggingFace_generate_response(context, outcome) ==
    CASE outcome = "generated"  -> Advice("provider", context.status, "generated_text")
      [] outcome = "error_dict" -> Advice("error", "", "HF API Error")
      [] outcome = "other_json" -> Advice("error", "", "Unexpected response format")
      [] outcome = "http_error" -> Advice("error", "", "Error calling Hugging Face API")
      [] OTHER                  -> Advice("error", "", "Error: exception text")

\* LLMInterface._select_provider
select_provider(hf_token) == IF hf_token # "" THEN "hf" ELSE "mock"

\* LLMInterface.generate_response
generate_response(prov, context, outcome) ==
    IF prov = "hf"
    THEN HuggingFace_generate_response(context, outcome)
    ELSE Mock_generate_response(context)

\* MentorReasoningAgent.provide_advice: the context handed to the LLM layer
provide_advice(prov, user_profile, purchase_analysis, outcome) ==
    generate_response(prov,
        [user_income |-> user_profile.monthly_income,
         savings_goal |-> user_profile.savings_goal,
         status |-> purchase_analysis.status,
         reason |-> purchase_analysis.reason,
         remaining_balance |-> purchase_analysis.remaining_balance],
        outcome)

InitAdvice ==
    /\ doc = initial_data
    /\ now = 1
    /\ \E a \in CalcInputs, b \in CalcInputs : call = Call("input", "", a, b)
    /\ ret = None
    /\ file = "ok"
    /\ \E t \in Tokens : provider = select_provider(t)
    /\ session = NoSession
    /\ procs = NoProcs

\* the advice for the assessment just returned
ProvideAdvice(outcome) ==
    /\ call.op = "assess_transaction"
    /\ ret.kind = "assessment"
    /\ call' = [call EXCEPT !.op = "provide_advice"]
    /\ ret' = Return("advice",
                     provide_advice(provider, get_user_profile(doc),
                                    ret.value, outcome))
    /\ UNCHANGED <<doc, now>>
    /\ UNCHANGED aux

NextAdvice ==
    \/ AssessTransaction
    \/ \E outcome \in Outcomes : ProvideAdvice(outcome)

SpecAdvice == InitAdvice /\ [][NextAdvice]_vars

\* C11: the advice returned for an assessment is the templated text keyed on
\* its status or the text a successful provider call generated, never an
\* error outcome.
C11_AdviceNeverError ==
    call.op = "provide_advice" =>
        /\ ret.kind = "advice"
        /\ ret.value.source \in {"template", "provider"}

----------------------------------------------------------------------------
(* The agent methods on unvalidated arguments *)

\* st.text_input yields "" until something is typed (app.py:49); the agent
\* methods take any float and any string
RawNames == {"", "Rent"}
RawAmounts == {0 - 5, 0, 5}
RawCategories == {"Wants", "Bogus"}

NextRaw ==
    \/ \E income \in Amounts, goal \in Goals : UpdateProfile(income, goal)
    \/ \E name \in RawNames, amount \in RawAmounts :
          AddFixedExpense(name, amount)
    \/ \E item \in Items, amount \in RawAmounts, category \in RawCategories :
          LogTransaction(item, amount, category)
    \/ GetTodaysState

SpecRaw == Init /\ [][NextRaw]_vars

ValidCategories == {"Wants", "Needs", "Unexpected"}

\* C12: invalid input never reaches the store: every stored fixed expense
\* has a non-empty name and a non-negative amount, every stored transaction
\* a non-negative amount and an allowed category.
C12_OnlyValidStored ==
    /\ \A i \in DOMAIN doc.fixed_expenses :
          /\ doc.fixed_expenses[i].name # ""
          /\ doc.fixed_expenses[i].amount >= 0
    /\ \A i \in DOMAIN doc.transactions :
          /\ doc.transactions[i].amount >= 0
          /\ doc.transactions[i].category \in ValidCategories

----------------------------------------------------------------------------
(* StorageEngine.__init__ over a file that is absent, valid or not JSON *)

FileStates == {"absent", "corrupt", "ok"}

\* a document written by an earlier run
ExistingDoc ==
    add_fixed_expense(update_user_profile(initial_data, 5, 5), "Rent", 5)

\* doc when there is no file: a placeholder that is never read
Nothing == [initial_data EXCEPT !.user_profile.currency = ""]

\* doc is the file's content when file = "ok" and stands for its bytes
\* when file = "corrupt"
InitFile ==
    /\ \E f \in FileStates :
          /\ file = f
          /\ doc = IF f = "absent" THEN Nothing ELSE ExistingDoc
    /\ now = 1
    /\ call = Call("start", "", 0, 0)
    /\ ret = None
    /\ provider = "mock"
    /\ session = NoSession
    /\ procs = NoProcs

\* __init__ / _initialize_db: only os.path.exists is consulted; the file is
\* not opened, so a corrupt file passes.  call.name is what was found.
Construct ==
    /\ call.op = "start"
    /\ IF file = "absent"
       THEN doc' = initial_data /\ file' = "ok"
       ELSE UNCHANGED <<doc, file>>
    /\ call' = Call("__init__", file, 0, 0)
    /\ ret' = None
    /\ UNCHANGED <<now, provider, session, procs>>

\* every public method starts with _load_data
StoreOps == {"update_user_profile", "get_user_profile", "add_fixed_expense",
             "get_fixed_expenses", "log_transaction", "get_transactions",
             "save_budget_plan", "get_budget_plan", "get_todays_state"}

\* _load_data on a file that is not JSON: json.load raises, nothing is saved
LoadFails(op) ==
    /\ call.op # "start"
    /\ file = "corrupt"
    /\ call' = Call(op, "", 0, 0)
    /\ ret' = Raise("JSONDecodeError")
    /\ UNCHANGED <<doc, now>>
    /\ UNCHANGED aux

NextFile ==
    \/ Construct
    \/ \E op \in StoreOps : LoadFails(op)
    \/ call.op # "start" /\ file = "ok" /\ Next

SpecFile == InitFile /\ [][NextFile]_vars

InitContract ==
    /\ (call'.op = "__init__" /\ file = "absent") =>
          file' = "ok" /\ doc' = initial_data
    /\ (call'.op = "__init__" /\ file # "absent") =>
          doc' = doc /\ file' = file
    /\ (call'.op = "__init__" /\ file = "corrupt") => ret'.kind = "raise"
    /\ (call.op # "start" /\ file = "corrupt") =>
          ret'.kind = "raise" /\ doc' = doc /\ file' = file

\* C13: initialization creates the zero document when none exists, leaves an
\* existing document as it is, and on an unreadable document surfaces a
\* fatal error, after which every operation fails and the document stays
\* unchanged.
C13_InitAbsentVsCorrupt == [][InitContract]_vars

----------------------------------------------------------------------------
(* Two actors sharing the cached agents (app.py:13-30), each running one *)
(* mutating call as _load_data ... _save_data                            *)

Actors == {1, 2}

Idle == [pc |-> "idle", op |-> "", name |-> "", a |-> 0, b |-> 0, date |-> 0,
         data |-> initial_data, overlap |-> FALSE]

\* the mutating calls an actor can make: op, arguments, and for a logged
\* transaction the date read before the file is loaded
Mutation(op, name, a, b, date) ==
    [op |-> op, name |-> name, a |-> a, b |-> b, date |-> date]

Mutations ==
    {Mutation("log_transaction", item, a, 0, now) :
        item \in Items, a \in Amounts}
    \cup {Mutation("add_fixed_expense", name, a, 0, 0) :
        name \in Names, a \in Amounts}
    \cup {Mutation("update_profile", "", a, goal, 0) :
        a \in Amounts, goal \in Goals}

\* lines 2-3 of each mutator: the change made to the loaded data
Apply(m, data) ==
    CASE m.op = "log_transaction" ->
            log_transaction(data, NewTransaction(m.date, m.name, m.a, "Wants"))
      [] m.op = "add_fixed_expense" -> add_fixed_expense(data, m.name, m.a)
      [] m.op = "update_profile" -> update_user_profile(data, m.a, m.b)

InitConc ==
    /\ doc = initial_data
    /\ now = 1
    /\ call = Call("init", "", 0, 0)
    /\ ret = None
    /\ file = "ok"
    /\ provider = "mock"
    /\ session = NoSession
    /\ procs = [p \in Actors |-> Idle]

\* mutant: the document read once and kept in memory instead of reloaded
LoadData_cached(p, m) ==
    /\ procs[p].pc = "idle"
    /\ procs' = [q \in Actors |->
          IF q = p
          THEN [pc |-> "loaded", op |-> m.op, name |-> m.name, a |-> m.a,
                b |-> m.b, date |-> m.date, data |-> initial_data,
                overlap |-> \E o \in Actors \ {p} : procs[o].pc = "loaded"]
          ELSE [procs[q] EXCEPT !.overlap = @ \/ procs[q].pc = "loaded"]]
    /\ now' = now + 1
    /\ UNCHANGED <<doc, call, ret, file, provider, session>>

\* the first line of a mutator: data = self._load_data().  overlap records
\* that another actor's call was between its load and its save.
LoadData(p, m) ==
    /\ procs[p].pc = "idle"
    /\ procs' = [q \in Actors |->
          IF q = p
          THEN [pc |-> "loaded", op |-> m.op, name |-> m.name, a |-> m.a,
                b |-> m.b, date |-> m.date, data |-> doc,
                overlap |-> \E o \in Actors \ {p} : procs[o].pc = "loaded"]
          ELSE [procs[q] EXCEPT !.overlap = @ \/ procs[q].pc = "loaded"]]
    /\ now' = now + 1
    /\ UNCHANGED <<doc, call, ret, file, provider, session>>

\* the last line of a mutator: self._save_data(data), then the call returns
SaveData(p) ==
    /\ procs[p].pc = "loaded"
    /\ doc' = Apply(procs[p], procs[p].data)
    /\ procs' = [procs EXCEPT ![p].pc = "returned"]
    /\ call' = Call(procs[p].op, procs[p].name, procs[p].a, procs[p].b)
    /\ ret' = None
    /\ UNCHANGED <<now, file, provider, session>>

NextConc ==
    \/ \E p \in Actors : \E m \in Mutations : LoadData(p, m)
    \/ \E p \in Actors : SaveData(p)

SpecConc == InitConc /\ [][NextConc]_vars

AllReturned == \A p \in Actors : procs[p].pc = "returned"
Overlapped == \E p \in Actors : procs[p].overlap

\* the documents the two calls leave when one runs wholly after the other
SerialOutcomes ==
    {Apply(procs[2], Apply(procs[1], initial_data)),
     Apply(procs[1], Apply(procs[2], initial_data))}

\* the transaction actor p logged is in the log
Logged(p) ==
    \E i \in DOMAIN doc.transactions :
        doc.transactions[i] =
            NewTransaction(procs[p].date, procs[p].name, procs[p].a, "Wants")

\* C14: when the two calls do not overlap no change is lost: the document
\* is the one the two calls leave in sequence, and every logged transaction
\* is in it.  (That overlapping calls can lose a change is C14_Witness.)
C14_SequentialKeepsAll ==
    (AllReturned /\ ~Overlapped) =>
        /\ doc \in SerialOutcomes
        /\ \A p \in Actors : procs[p].op = "log_transaction" => Logged(p)

\* both calls returned, they overlapped, and a logged transaction is missing
C14_Witness ==
    /\ AllReturned /\ Overlapped
    /\ doc \notin SerialOutcomes
    /\ \E p \in Actors : procs[p].op = "log_transaction" /\ ~Logged(p)

----------------------------------------------------------------------------
(* app.py: the button handlers of one browser session *)

\* "Update Profile" (lines 42-45).  session.stale records that the store
\* was changed after the analysis now held in the session.
HandleUpdateProfile(income, savings_goal) ==
    /\ doc' = update_user_profile(doc, income, savings_goal)
    /\ session' = [session EXCEPT !.stale = TRUE]
    /\ call' = Call("update_profile", "", income, savings_goal)
    /\ ret' = None
    /\ UNCHANGED <<now, file, provider, procs>>

\* "Add Expense" (lines 52-55)
HandleAddExpense(name, amount) ==
    /\ doc' = add_fixed_expense(doc, name, amount)
    /\ session' = [session EXCEPT !.stale = TRUE]
    /\ call' = Call("add_fixed_expense", name, amount, 0)
    /\ ret' = None
    /\ UNCHANGED <<now, file, provider, procs>>

\* "Analyze Purchase" (lines 110-124): nothing is stored unless item_cost > 0
\* and analyze_purchase returns
HandleAnalyze(item_name, item_cost) ==
    LET analysis == analyze_purchase(doc, item_name, item_cost) IN
    /\ call' = Call("analyze_purchase", item_name, item_cost, 0)
    /\ IF item_cost > 0
       THEN /\ ret' = analysis
            /\ session' =
                 IF analysis.kind = "raise" THEN session
                 ELSE [analysis_done |-> TRUE,
                       item |-> analysis.value.item,
                       cost |-> analysis.value.cost,
                       remaining_balance |-> analysis.value.remaining_balance,
                       status |-> analysis.value.status,
                       stale |-> FALSE]
       ELSE /\ ret' = None
            /\ UNCHANGED session
    /\ UNCHANGED <<doc, now, file, provider, procs>>

\* mutant: analysis_done left set after the purchase is logged
HandleConfirm_keep(category) ==
    /\ session.analysis_done
    /\ Len(doc.transactions) < MaxTx
    /\ doc' = log_transaction(doc,
                 NewTransaction(now, session.item, session.cost, category))
    /\ now' = now + 1
    /\ UNCHANGED session
    /\ call' = Call("confirm_purchase", session.item, session.cost, 0)
    /\ ret' = None
    /\ UNCHANGED <<file, provider, procs>>

\* "I bought this" (lines 127, 147-152): shown only while analysis_done
HandleConfirm(category) ==
    /\ session.analysis_done
    /\ Len(doc.transactions) < MaxTx
    /\ doc' = log_transaction(doc,
                 NewTransaction(now, session.item, session.cost, category))
    /\ now' = now + 1
    /\ session' = [session EXCEPT !.analysis_done = FALSE]
    /\ call' = Call("confirm_purchase", session.item, session.cost, 0)
    /\ ret' = None
    /\ UNCHANGED <<file, provider, procs>>

\* "I changed my mind" (lines 155-158)
HandleCancel ==
    /\ session.analysis_done
    /\ session' = [session EXCEPT !.analysis_done = FALSE]
    /\ call' = Call("cancel", "", 0, 0)
    /\ ret' = None
    /\ UNCHANGED <<doc, now, file, provider, procs>>

NextFlow ==
    \/ \E income \in Amounts, goal \in Goals : HandleUpdateProfile(income, goal)
    \/ \E name \in Names, amount \in Amounts : HandleAddExpense(name, amount)
    \/ \E item \in Items, cost \in Amounts : HandleAnalyze(item, cost)
    \/ \E category \in Categories : HandleConfirm(category)
    \/ HandleCancel

SpecFlow == Init /\ [][NextFlow]_vars

Confirmed == call.op = "confirm_purchase"

SnapshotMatchesAnalysis ==
    get_todays_state(doc).free_cash_flow = session.remaining_balance

\* a step that logs a transaction
LoggedOnlyOnConfirm ==
    doc'.transactions # doc.transactions =>
        /\ session.analysis_done
        /\ session.cost > 0
        /\ ~session'.analysis_done
        /\ Len(doc'.transactions) = Len(doc.transactions) + 1
        /\ LET tx == doc'.transactions[Len(doc'.transactions)]
           IN tx.description = session.item /\ tx.amount = session.cost

\* C15 as stated: whatever happened between the analysis and the
\* confirmation, free_cash_flow right after the confirmation equals the
\* remaining_balance of the confirmed assessment.
C15_ConfirmMatchesAnalysis == Confirmed => SnapshotMatchesAnalysis

\* C15 as amended: a transaction is logged only while an analysis with
\* cost > 0 is pending, it is that item and cost, and the analysis is no
\* longer pending afterwards; and when no profile update or fixed-expense
\* addition came between the analysis and the confirmation, free_cash_flow
\* right after the confirmation equals the assessed remaining_balance.
C15_ConfirmFreshAnalysis ==
    /\ [][LoggedOnlyOnConfirm]_vars
    /\ []((Confirmed /\ ~session.stale) => SnapshotMatchesAnalysis)

C15_Witness ==
    /\ Confirmed /\ ~session.stale
    /\ session.cost > 0
    /\ doc.user_profile.monthly_income > 0
    /\ doc.fixed_expenses # <<>>
    /\ SnapshotMatchesAnalysis

============================================================================
